---- MODULE Spec2Model ----
(***************************************************************************)
(* Sungrow Modbus integration: the poll cycle of SungrowModbusCoordinator  *)
(* (sensor.py) over the register maps of ModelRegistry                     *)
(* (model_registry.py).                                                    *)
(*                                                                         *)
(* Spec      the coordinator: poll cycles on one shared Modbus client,     *)
(*           register maps taken from ModelRegistry.                       *)
(* SpecPlan  the grouping loop and _read_register_group applied to         *)
(*           register lists drawn from a bounded set.                      *)
(***************************************************************************)
EXTENDS Integers, Sequences, FiniteSets, TLC

\* ------------------------------------------------------------------ bounds
\* Number of poll-cycle invocations on the one coordinator.
MaxCycles == 2
\* Longest register list handed to the grouping loop in SpecPlan.
MaxRegs == 3
\* Most members of a typed block handed to _read_register_group in SpecDecode.
MaxMembers == 2
\* Number of polls that reach the model lookup in SpecRegistry.
MaxLookups == 4

\* ------------------------------------------------------- program constants
\* sensor.py:72, the identity register (register 5000, zero-based 4999).
IdentityAddress == 4999
SH10RT == 3587     \* 0x0E03
SH25T == 3622      \* 0x0E26

\* Python's None as a returned value.
None == "None"

\* Bind(e, F): F applied to the value of e, which is computed once (a local
\* variable assigned once and read many times).
Bind(e, F(_)) == CHOOSE r \in {F(x) : x \in {e}} : TRUE

\* ------------------------------------------------------------ ModelRegistry
\* Register(address, name, data_type, count=1, scale=1.0, ...,
\* register_type="input"); scale is kept as the pair <<numerator, denominator>>.
Register(address, name, data_type, count, scale, register_type) ==
    [address |-> address, name |-> name, data_type |-> data_type,
     count |-> count, scale |-> scale, register_type |-> register_type]

DefaultCount == 1
DefaultScale == <<1, 1>>
DefaultRegisterType == "input"
Tenth == <<1, 10>>

create_base_registers ==
    << Register(4989, "Serial Number", "string", 10, DefaultScale, DefaultRegisterType),
       Register(4999, "Device Type Code", "uint16", DefaultCount, DefaultScale, DefaultRegisterType),
       Register(5007, "Inverter Temperature", "int16", DefaultCount, Tenth, DefaultRegisterType) >>

create_sh10rt ==
    create_base_registers \o
    << Register(5010, "MPPT1 Voltage", "uint16", DefaultCount, Tenth, DefaultRegisterType),
       Register(5011, "MPPT1 Current", "uint16", DefaultCount, Tenth, DefaultRegisterType),
       Register(5012, "MPPT2 Voltage", "uint16", DefaultCount, Tenth, DefaultRegisterType),
       Register(5013, "MPPT2 Current", "uint16", DefaultCount, Tenth, DefaultRegisterType) >>

create_sh25t ==
    create_base_registers \o
    << Register(5010, "MPPT1 Voltage", "uint16", DefaultCount, Tenth, DefaultRegisterType),
       Register(5011, "MPPT1 Current", "uint16", DefaultCount, Tenth, DefaultRegisterType),
       Register(5012, "MPPT2 Voltage", "uint16", DefaultCount, Tenth, DefaultRegisterType),
       Register(5013, "MPPT2 Current", "uint16", DefaultCount, Tenth, DefaultRegisterType),
       Register(5014, "MPPT3 Voltage", "uint16", DefaultCount, Tenth, DefaultRegisterType),
       Register(5015, "MPPT3 Current", "uint16", DefaultCount, Tenth, DefaultRegisterType),
       Register(5016, "Total DC Power", "uint32", DefaultCount, DefaultScale, DefaultRegisterType) >>

\* self.models: the registered identity codes.
models == {SH10RT, SH25T}

\* A registry that answers a code it does not know with the SH10RT list.
get_model_fallback(model_code) ==
    IF model_code = SH25T THEN [isNone |-> FALSE, list |-> create_sh25t]
    ELSE [isNone |-> FALSE, list |-> create_sh10rt]

\* get_model: a freshly built list for a registered code, None otherwise.
\* The optional list is the record [isNone, list].
get_model(model_code) ==
    IF model_code = SH10RT THEN [isNone |-> FALSE, list |-> create_sh10rt]
    ELSE IF model_code = SH25T THEN [isNone |-> FALSE, list |-> create_sh25t]
    ELSE [isNone |-> TRUE, list |-> <<>>]

\* The list objects get_model has returned so far are heap[1..Len(heap)].
\* A registry that builds the list of a model once and returns that same
\* object at every later lookup of the model.
create_func_shared(heap, model_code) ==
    IF \E id \in 1..Len(heap) : heap[id].code = model_code
    THEN CHOOSE id \in 1..Len(heap) : heap[id].code = model_code
    ELSE Len(heap) + 1

\* `return create_func()`: _create_sh10rt / _create_sh25t build their list
\* anew at every call, so the object returned is one nobody holds yet.
create_func(heap, model_code) == Len(heap) + 1

\* `not registers`: None and the empty list are both falsy.
Falsy(registers) == registers.isNone \/ registers.list = <<>>

\* ------------------------------------------------- transport (Modbus client)
\* The device's words: an image <<w0, w1>> gives w0 at even and w1 at odd
\* addresses. A response is an error, or carries the words it returns; a
\* well-behaved device returns exactly `count` words, a misbehaving one a
\* word less or more.
Word(img, address) == IF address % 2 = 0 THEN img[1] ELSE img[2]

Words(img, address, n) == [i \in 1..n |-> Word(img, address + i - 1)]

ErrorResponse == [isError |-> TRUE, registers |-> <<>>]

Respond(kind, img, address, count) ==
    CASE kind = "error" -> ErrorResponse
      [] kind = "short" -> [isError |-> FALSE, registers |-> Words(img, address, count - 1)]
      [] kind = "long"  -> [isError |-> FALSE, registers |-> Words(img, address, count + 1)]
      [] OTHER          -> [isError |-> FALSE, registers |-> Words(img, address, count)]

\* -------------------------------------------------------------- dict `data`
\* The dict built by a poll: the "device_type_code" key (absent: <<>>, present:
\* <<code>>) and the integer keys (register address -> value).
EmptyDict == [device_type_code |-> <<>>, values |-> <<>>]

DictSet(data, key, value) ==
    Bind(data, LAMBDA d :
        [d EXCEPT !.values =
            [a \in (DOMAIN d.values) \cup {key} |->
                IF a = key THEN value ELSE d.values[a]]])

\* Decoded values: an int, a str (its character codes) or None. Python ints
\* are unbounded and a composed 32-bit value does not fit the checker's
\* integers, so an int n is kept exactly as the pair <<h, l>> with
\* n = h * 65536 + l and 0 <= l < 65536.
IntValue(h, l) == [kind |-> "int", num |-> <<h, l>>, str |-> <<>>]
StrValue(s) == [kind |-> "str", num |-> <<0, 0>>, str |-> s]
NoneValue == [kind |-> "none", num |-> <<0, 0>>, str |-> <<>>]

\* ----------------------------------------------------- decoding of a block
\* str.replace('\x00', '') and str.strip() on characters below 256.
IsSpace(ch) == ch \in {9, 10, 11, 12, 13, 28, 29, 30, 31, 32, 133, 160}

RemoveNul(chars) == SelectSeq(chars, LAMBDA ch : ch # 0)

RECURSIVE LStrip(_)
LStrip(chars) ==
    IF chars # <<>> /\ IsSpace(Head(chars)) THEN LStrip(Tail(chars)) ELSE chars

RECURSIVE RStrip(_)
RStrip(chars) ==
    IF chars # <<>> /\ IsSpace(chars[Len(chars)])
    THEN RStrip(SubSeq(chars, 1, Len(chars) - 1)) ELSE chars

Strip(chars) == RStrip(LStrip(chars))

\* The characters of `count` words from word index `offset` (zero-based):
\* high byte, then low byte, of each word.
RECURSIVE Chars(_, _, _)
Chars(words, offset, count) ==
    IF count = 0 THEN <<>>
    ELSE Chars(words, offset, count - 1) \o
         << (words[offset + count] \div 256) % 256, words[offset + count] % 256 >>

\* The number of words, from `offset`, that decoding `reg` indexes.
WordsIndexed(reg) ==
    CASE reg.data_type = "string" -> reg.count
      [] reg.data_type \in {"uint16", "int16"} -> 1
      [] reg.data_type \in {"uint32", "int32"} -> 2
      [] OTHER -> 0

\* The amount `offset` advances by after `reg`.
OffsetAdvance(reg) ==
    CASE reg.data_type \in {"uint16", "int16"} -> 1
      [] reg.data_type \in {"uint32", "int32"} -> 2
      [] OTHER -> reg.count

\* A decoder that takes the low word of a 32-bit value first.
DecodeValue_lowfirst(reg, words, offset) ==
    CASE reg.data_type \in {"uint16", "int16"} ->
            IF reg.data_type = "int16" /\ words[offset + 1] > 32767
            THEN IntValue(-1, words[offset + 1])
            ELSE IntValue(0, words[offset + 1])
      [] reg.data_type = "uint32" -> IntValue(words[offset + 2], words[offset + 1])
      [] reg.data_type = "int32" ->
            IF words[offset + 2] > 32767
            THEN IntValue(words[offset + 2] - 65536, words[offset + 1])
            ELSE IntValue(words[offset + 2], words[offset + 1])
      [] OTHER -> NoneValue

\* The value decoded for `reg` from the words at `offset` (zero-based); the
\* indexed words are in the buffer.
DecodeValue(reg, words, offset) ==
    CASE reg.data_type = "string" ->
            StrValue(Strip(RemoveNul(Chars(words, offset, reg.count))))
      [] reg.data_type = "uint16" -> IntValue(0, words[offset + 1])
      [] reg.data_type = "int16" ->
            IF words[offset + 1] > 32767
            THEN IntValue(-1, words[offset + 1])       \* value - 0x10000
            ELSE IntValue(0, words[offset + 1])
      [] reg.data_type = "uint32" -> IntValue(words[offset + 1], words[offset + 2])
      [] reg.data_type = "int32" ->
            IF words[offset + 1] > 32767               \* value > 0x7FFFFFFF
            THEN IntValue(words[offset + 1] - 65536, words[offset + 2])
            ELSE IntValue(words[offset + 1], words[offset + 2])
      [] OTHER -> NoneValue

\* The `for reg in registers` loop of _read_register_group from member k on:
\* each member's value is stored under its address as soon as it is decoded;
\* indexing past the end of result.registers raises IndexError.
RECURSIVE ProcessResults(_, _, _, _, _)
ProcessResults(registers, k, offset, words, data) ==
    IF k > Len(registers) THEN [data |-> data, exc |-> "none"]
    ELSE LET reg == registers[k] IN
         IF offset + WordsIndexed(reg) > Len(words)
         THEN [data |-> data, exc |-> "IndexError"]
         ELSE ProcessResults(registers, k + 1, offset + OffsetAdvance(reg), words,
                             DictSet(data, reg.address, DecodeValue(reg, words, offset)))

\* --------------------------------------------------- _read_register_group
\* A poll that never notices an error response.
isError_never(result) == FALSE

\* result.isError()
isError(result) == result.isError

RECURSIVE SumCount(_)
SumCount(registers) ==
    IF registers = <<>> THEN 0 ELSE Head(registers).count + SumCount(Tail(registers))

\* The transport operation chosen for a group: that of its first member.
GroupOp(registers) ==
    IF registers[1].register_type = "input" THEN "input" ELSE "holding"

\* One call of _read_register_group(registers, data) against a device that
\* answers with `kind` from image `img`: the request it issues, the response,
\* the dict afterwards, the exception it raises (if any) and what it returns.
read_register_group(registers, data, kind, img) ==
    LET start_address == registers[1].address
        count == SumCount(registers)
        request == [op |-> GroupOp(registers), address |-> start_address,
                    count |-> count, registers |-> registers]
    IN Bind(Respond(kind, img, start_address, count), LAMBDA result :
         Bind(IF isError(result)
              THEN [data |-> data, exc |-> "none"]
              ELSE ProcessResults(registers, 1, 0, result.registers, data),
              LAMBDA done :
                [request |-> request,
                 response |-> [isError |-> result.isError,
                               words |-> Len(result.registers)],
                 data |-> done.data, exc |-> done.exc, ret |-> None]))

\* ------------------------------------- _async_update_data, lines 91 to 113
\* registers.sort(key=lambda r: r.address): stable, ascending.
\* Before(registers, i, j): registers[i] comes before registers[j] once
\* sorted, equal addresses keeping their input order.
Before(registers, i, j) ==
    \/ registers[i].address < registers[j].address
    \/ registers[i].address = registers[j].address /\ i < j

\* Each register goes to the position given by the number of registers that
\* come before it.
SortByAddress(registers) ==
    Bind(registers, LAMBDA regs :
      Bind([j \in 1..Len(regs) |->
                Cardinality({i \in 1..Len(regs) : Before(regs, i, j)}) + 1],
           LAMBDA position :
              [k \in 1..Len(regs) |->
                  regs[CHOOSE j \in 1..Len(regs) : position[j] = k]]))

\* A contiguity test that also accepts a register lying beyond a gap.
Contiguous_gap(reg, last_reg) == reg.address >= last_reg.address + last_reg.count

\* `if reg.address == last_reg.address + last_reg.count`
Contiguous(reg, last_reg) == reg.address = last_reg.address + last_reg.count

\* `await v` raises TypeError unless v is awaitable; None is not.
AwaitRaises(v) == v = None

\* How the device answers a block read starting at `address` during a poll.
KindOf(kinds, address) == IF address \in DOMAIN kinds THEN kinds[address] ELSE "ok"

\* `await self._read_register_group(current_group, data)`: the call runs to
\* its end, then its return value is awaited. st is the poll's running state:
\* the dict, the requests issued and responses received, the exception raised.
ReadAndAwait(current_group, st, kinds, img) ==
    Bind(read_register_group(current_group, st.data,
                             KindOf(kinds, current_group[1].address), img),
         LAMBDA r :
            [data |-> r.data,
             requests |-> Append(st.requests, r.request),
             responses |-> Append(st.responses, r.response),
             exc |-> IF r.exc # "none" THEN r.exc
                     ELSE IF AwaitRaises(r.ret) THEN "TypeError" ELSE "none"])

\* The `for reg in registers` loop from index i on, then the read of the
\* remaining group.
RECURSIVE GroupLoop(_, _, _, _, _, _)
GroupLoop(registers, i, current_group, st, kinds, img) ==
    IF st.exc # "none" THEN st
    ELSE IF i > Len(registers)
    THEN IF current_group # <<>>
         THEN ReadAndAwait(current_group, st, kinds, img)
         ELSE st
    ELSE LET reg == registers[i] IN
         IF current_group = <<>>
         THEN GroupLoop(registers, i + 1, <<reg>>, st, kinds, img)
         ELSE IF Contiguous(reg, current_group[Len(current_group)])
         THEN GroupLoop(registers, i + 1, Append(current_group, reg), st, kinds, img)
         ELSE GroupLoop(registers, i + 1, <<reg>>,
                        ReadAndAwait(current_group, st, kinds, img), kinds, img)

\* Lines 87 to 113: from `if not registers` to `return data`. The outcome:
\* pc "Failed" (the early `return {}`), "Published" (`return data`) or
\* "Raised" (an exception leaves the method), with the value returned.
PollRegisters(registers, data, kinds, img) ==
    IF Falsy(registers)
    THEN [pc |-> "Failed", ret |-> EmptyDict, data |-> data,
          requests |-> <<>>, responses |-> <<>>, exc |-> "none"]
    ELSE Bind(SortByAddress(registers.list), LAMBDA sorted :
         Bind(GroupLoop(sorted, 1, <<>>,
                        [data |-> data, requests |-> <<>>,
                         responses |-> <<>>, exc |-> "none"],
                        kinds, img),
              LAMBDA st :
                [pc |-> IF st.exc = "none" THEN "Published" ELSE "Raised",
                 ret |-> IF st.exc = "none" THEN st.data ELSE EmptyDict,
                 data |-> st.data, requests |-> st.requests,
                 responses |-> st.responses, exc |-> st.exc]))

\* ------------------------------------- _async_update_data, lines 66 to 89
\* The identity read: read_holding_registers(4999, 1, slave).
IdentityRequest ==
    [op |-> "holding", address |-> IdentityAddress, count |-> 1, registers |-> <<>>]

\* Lines 77 to 113: what the method does once the executor job has returned
\* device_type_result. Everything here runs without suspension: the block
\* reads are plain calls on the event loop.
UpdateAfterIdentity(device_type_result, data, kinds, img) ==
    LET none == [pc |-> "Failed", ret |-> EmptyDict, data |-> data,
                 requests |-> <<>>, responses |-> <<>>, exc |-> "none",
                 model_code |-> <<>>, lookup |-> "not_called"]
    IN
    IF isError(device_type_result) THEN none
    ELSE IF device_type_result.registers = <<>>
    THEN [none EXCEPT !.pc = "Raised", !.exc = "AttributeError"]
    ELSE LET code == device_type_result.registers[1]
             data1 == [data EXCEPT !.device_type_code = <<code>>]
             registers == get_model(code)
         IN Bind(PollRegisters(registers, data1, kinds, img), LAMBDA out :
              [pc |-> out.pc, ret |-> out.ret, data |-> out.data,
               requests |-> out.requests, responses |-> out.responses,
               exc |-> out.exc, model_code |-> <<code>>,
               lookup |-> IF registers.isNone THEN "not_found" ELSE "found"])

\* ------------------------------------------------------------ environment
Cycles == 1..MaxCycles

\* What the identity register may hold: the two supported codes and two
\* codes no model is registered for (0x0000, 0xFFFF).
IdentityCodes == models \cup {0, 65535}

IdentityResults ==
    {ErrorResponse} \cup {[isError |-> FALSE, registers |-> <<code>>] : code \in IdentityCodes}

\* Device images <<word at even addresses, word at odd addresses>>.
Images == {<<16706, 32768>>, <<1, 65535>>}
Kinds == {"ok", "error", "short", "long"}

\* The addresses at which a contiguous run of a built-in model starts; a
\* block read starting there is answered arbitrarily.
SeqToSet(seq) == {seq[i] : i \in 1..Len(seq)}
BlockStarts ==
    UNION {{r.address : r \in {x \in SeqToSet(get_model(code).list) :
                \A y \in SeqToSet(get_model(code).list) :
                    y.address + y.count # x.address}} : code \in models}

\* The device's behaviour towards the block reads of one poll. A poll whose
\* identity read fails or names no registered model reads no block, so for
\* it only one behaviour is distinguished.
Envs == [kinds : [BlockStarts -> Kinds], img : Images]
QuietEnv == [kinds |-> [a \in BlockStarts |-> "ok"], img |-> <<1, 65535>>]
EnvsFor(device_type_result) ==
    IF device_type_result.isError \/ device_type_result.registers[1] \notin models
    THEN {QuietEnv} ELSE Envs

\* Register lists for SpecPlan: addresses with two runs and a gap, widths 1
\* (uint16) and 2 (uint32), both register spaces.
PlanAddresses == {100, 101, 102, 200}
PlanRegisters ==
    {Register(a, "r", IF n = 1 THEN "uint16" ELSE "uint32", n, DefaultScale, t) :
        a \in PlanAddresses, n \in {1, 2}, t \in {"input", "holding"}}
RegisterLists == UNION {[1..n -> PlanRegisters] : n \in 0..MaxRegs}
PlanImages == {<<1, 2>>}
PlanKinds == {"ok", "error"}

\* Blocks for SpecDecode. The typed blocks: up to MaxMembers contiguous
\* numeric registers from address 100 on, each of the width its data type
\* occupies, unscaled or scaled by 0.1. The model blocks: the groups the
\* grouping loop forms from the built-in register lists.
NumericTypes == {"uint16", "int16", "uint32", "int32"}
TypeWidth(data_type) == IF data_type \in {"uint32", "int32"} THEN 2 ELSE 1
DecodeShapes == NumericTypes \X {DefaultScale, Tenth}

RECURSIVE TypedBlock(_, _)
TypedBlock(shapes, address) ==
    IF shapes = <<>> THEN <<>>
    ELSE << Register(address, "r", shapes[1][1], TypeWidth(shapes[1][1]),
                     shapes[1][2], DefaultRegisterType) >>
         \o TypedBlock(Tail(shapes), address + TypeWidth(shapes[1][1]))

TypedBlocks ==
    {TypedBlock(shapes, 100) :
        shapes \in UNION {[1..n -> DecodeShapes] : n \in 1..MaxMembers}}

\* The group that starts at index i of a sorted list: registers[i] and the
\* registers that follow it for as long as each starts where the one before
\* it ends (lines 97 to 107).
RECURSIVE GroupFrom(_, _)
GroupFrom(registers, i) ==
    << registers[i] >> \o
    (IF i < Len(registers) /\ Contiguous(registers[i + 1], registers[i])
     THEN GroupFrom(registers, i + 1) ELSE <<>>)

Groups(registers) ==
    Bind(SortByAddress(registers), LAMBDA sorted :
        {GroupFrom(sorted, i) :
            i \in {j \in 1..Len(sorted) :
                     IF j = 1 THEN TRUE ELSE ~Contiguous(sorted[j], sorted[j - 1])}})

ModelBlocks == UNION {Groups(get_model(code).list) : code \in models}
DecodeBlocks == TypedBlocks \cup ModelBlocks

\* Word values at the edges of the signed and unsigned ranges, and the device
\* images made of them.
WordValues == {0, 1, 2, 32767, 32768, 65535}
DecodeImages == (WordValues \X WordValues) \cup Images

\* ------------------------------------ SungrowModbusSensor.state, 187 to 196
\* dict.get(key): the value under the key, None when the key is absent.
DictGet(d, key) == IF key \in DOMAIN d.values THEN d.values[key] ELSE NoneValue

\* What the state property returns: an int, a float (the exact quotient
\* num / den of an int pair and a positive denominator), a str, None, or the
\* TypeError it raises.
StateValue(kind, num, den, str) == [kind |-> kind, num |-> num, den |-> den, str |-> str]

\* n * <<h, l>> for a small n >= 0.
PairTimes(pair, n) ==
    << pair[1] * n + (pair[2] * n) \div 65536, (pair[2] * n) % 65536 >>

\* value * self.register.scale, the scale being scale[1] / scale[2]: an int
\* times a float is a float; a str times a float raises TypeError.
Times(value, scale) ==
    IF value.kind = "int"
    THEN StateValue("float", PairTimes(value.num, scale[1]), scale[2], <<>>)
    ELSE StateValue("TypeError", <<0, 0>>, 1, <<>>)

\* A state property that returns the stored value as it is.
state_unscaled(register, d) ==
    StateValue(DictGet(d, register.address).kind, DictGet(d, register.address).num,
               1, DictGet(d, register.address).str)

\* The state property of the sensor of `register` when coordinator.data is d.
state(register, d) ==
    Bind(DictGet(d, register.address), LAMBDA value :
        IF value # NoneValue /\ register.scale # DefaultScale
        THEN Times(value, register.scale)
        ELSE StateValue(value.kind, value.num, 1, value.str))

\* ------------------------------------------------------------------ state
VARIABLES
    pc,                \* per cycle: Idle, ReadingIdentity, Failed, Published, Raised
    poll_data,         \* per cycle: the local dict `data`
    poll_model_code,   \* per cycle: the local model_code, <<>> while unassigned
    lookup,            \* per cycle: not_called, not_found, found (get_model)
    requests,          \* per cycle: the requests issued on self.client, in order
    responses,         \* per cycle: the responses received, in order
    ret,               \* per cycle: the dict returned
    exc,               \* per cycle: the exception that left the method
    coordinator_data,  \* coordinator.data, the snapshot consumers read
    dataOwner,         \* the cycle whose returned dict coordinator.data is (0: __init__)
    seen,              \* what a reader of coordinator.data last saw, <<>> before any read
    plan_registers,    \* SpecPlan: the register list under test
    plan,              \* SpecPlan: the outcome of lines 87 to 113 on it
    dec_block,         \* SpecDecode: the block (register group) under test
    dec_img,           \* SpecDecode: the device image the block is read from
    dec,               \* SpecDecode: <<>>, then <<outcome of _read_register_group>>
    dec_state,         \* SpecDecode: <<>>, then <<address -> SungrowModbusSensor.state>>
    lists,             \* SpecRegistry: the list objects get_model has returned
    lookups,           \* SpecRegistry: the lookups made, in order
    probe_code,        \* SpecLookup: the identity code looked up
    probe              \* SpecLookup: <<>>, then <<what get_model returned>>

cycle_vars == <<pc, poll_data, poll_model_code, lookup, requests, responses, ret, exc,
                coordinator_data, dataOwner, seen>>
plan_vars == <<plan_registers, plan>>
decode_vars == <<dec_block, dec_img, dec, dec_state>>
registry_vars == <<lists, lookups>>
lookup_vars == <<probe_code, probe>>
vars == <<cycle_vars, plan_vars, decode_vars, registry_vars, lookup_vars>>

IdlePlan ==
    [pc |-> "Idle", ret |-> EmptyDict, data |-> EmptyDict,
     requests |-> <<>>, responses |-> <<>>, exc |-> "none"]

\* __init__: self.data = {}; no poll has run.
InitCycles ==
    /\ pc = [c \in Cycles |-> "Idle"]
    /\ poll_data = [c \in Cycles |-> EmptyDict]
    /\ poll_model_code = [c \in Cycles |-> <<>>]
    /\ lookup = [c \in Cycles |-> "not_called"]
    /\ requests = [c \in Cycles |-> <<>>]
    /\ responses = [c \in Cycles |-> <<>>]
    /\ ret = [c \in Cycles |-> EmptyDict]
    /\ exc = [c \in Cycles |-> "none"]
    /\ coordinator_data = EmptyDict
    /\ dataOwner = 0
    /\ seen = <<>>

\* The variables of the other specifications, at rest.
IdleDecode ==
    /\ dec_block = <<>>
    /\ dec_img = <<0, 0>>
    /\ dec = <<>>
    /\ dec_state = <<>>
IdleRegistry ==
    /\ lists = <<>>
    /\ lookups = <<>>
IdleLookup ==
    /\ probe_code = 0
    /\ probe = <<>>

Init ==
    /\ InitCycles
    /\ plan_registers = <<>>
    /\ plan = IdlePlan
    /\ IdleDecode /\ IdleRegistry /\ IdleLookup

\* Lines 66 to 75: a poll starts, makes its dict and hands the identity read
\* to the executor; the coroutine is suspended until the job returns. Nothing
\* in the method keeps a second poll from starting meanwhile.
async_update_data_start(c) ==
    /\ pc[c] = "Idle"
    /\ IF c = 1 THEN TRUE ELSE pc[c - 1] # "Idle"
    /\ pc' = [pc EXCEPT ![c] = "ReadingIdentity"]
    /\ poll_data' = [poll_data EXCEPT ![c] = EmptyDict]
    /\ requests' = [requests EXCEPT ![c] = <<IdentityRequest>>]
    /\ UNCHANGED <<poll_model_code, lookup, responses, ret, exc, coordinator_data,
                   dataOwner, seen, plan_vars, decode_vars, registry_vars,
                   lookup_vars>>

\* Every way a poll goes on once the executor job has returned, as the pair
\* <<device_type_result, outcome of lines 77 to 113>>; `data` is still the
\* empty dict of line 68 then.
Resumptions ==
    UNION {{<<device_type_result,
              UpdateAfterIdentity(device_type_result, EmptyDict, env.kinds, env.img)>> :
                env \in EnvsFor(device_type_result)} :
           device_type_result \in IdentityResults}

\* Lines 77 to 113: the executor job returns and the method runs to its end.
\* A dict returned (by either `return {}` or `return data`) becomes
\* coordinator.data; an exception leaves coordinator.data as it was.
async_update_data_resume(c) ==
    /\ pc[c] = "ReadingIdentity"
    /\ poll_data[c] = EmptyDict
    /\ \E resumption \in Resumptions :
       \E device_type_result \in {resumption[1]} :
          \E out \in {resumption[2]} :
             /\ pc' = [pc EXCEPT ![c] = out.pc]
             /\ poll_data' = [poll_data EXCEPT ![c] = out.data]
             /\ poll_model_code' = [poll_model_code EXCEPT ![c] = out.model_code]
             /\ lookup' = [lookup EXCEPT ![c] = out.lookup]
             /\ requests' = [requests EXCEPT ![c] = @ \o out.requests]
             /\ responses' = [responses EXCEPT ![c] =
                    <<[isError |-> device_type_result.isError,
                       words |-> Len(device_type_result.registers)]>> \o out.responses]
             /\ ret' = [ret EXCEPT ![c] = out.ret]
             /\ exc' = [exc EXCEPT ![c] = out.exc]
             /\ IF out.pc \in {"Failed", "Published"}
                THEN coordinator_data' = out.ret /\ dataOwner' = c
                ELSE UNCHANGED <<coordinator_data, dataOwner>>
    /\ UNCHANGED <<seen, plan_vars, decode_vars, registry_vars, lookup_vars>>

\* A reader that looks into the dict some poll has been filling.
read_cycle_dict ==
    /\ \E r \in Cycles : pc[r] = "ReadingIdentity"
    /\ \E c \in Cycles : seen' = << poll_data[c] >>
    /\ UNCHANGED <<pc, poll_data, poll_model_code, lookup, requests, responses, ret, exc,
                   coordinator_data, dataOwner, plan_vars, decode_vars,
                   registry_vars, lookup_vars>>

\* A reader of coordinator.data (line 27: coordinator.data.get(...), line 190:
\* self.coordinator.data.get(...)) that runs while a poll is in progress. The
\* one point at which a poll lets other code run is its identity read; from
\* line 77 to its end it runs without suspension. The reader sees the dict
\* coordinator.data refers to at that moment.
read_coordinator_data ==
    /\ \E r \in Cycles : pc[r] = "ReadingIdentity"
    /\ seen' = << coordinator_data >>
    /\ UNCHANGED <<pc, poll_data, poll_model_code, lookup, requests, responses, ret, exc,
                   coordinator_data, dataOwner, plan_vars, decode_vars,
                   registry_vars, lookup_vars>>

Next ==
    \/ \E c \in Cycles : async_update_data_start(c)
    \/ \E c \in Cycles : async_update_data_resume(c)
    \/ read_coordinator_data

Spec == Init /\ [][Next]_vars

\* ---------------------------------------------------------------- SpecPlan
InitPlan ==
    /\ InitCycles
    /\ plan_registers \in RegisterLists
    /\ plan = IdlePlan
    /\ IdleDecode /\ IdleRegistry /\ IdleLookup

\* Lines 87 to 113 applied to the list under test.
PlanRun ==
    /\ plan.pc = "Idle"
    /\ \E kinds \in [PlanAddresses -> PlanKinds], img \in PlanImages :
          plan' = PollRegisters([isNone |-> FALSE, list |-> plan_registers],
                                EmptyDict, kinds, img)
    /\ UNCHANGED <<cycle_vars, plan_registers, decode_vars, registry_vars,
                   lookup_vars>>

NextPlan == PlanRun

SpecPlan == InitPlan /\ [][NextPlan]_vars

\* -------------------------------------------------------------- SpecDecode
\* _read_register_group and the sensors' state property on one block.
InitDecode ==
    /\ InitCycles
    /\ plan_registers = <<>>
    /\ plan = IdlePlan
    /\ dec_block \in DecodeBlocks
    /\ dec_img \in DecodeImages
    /\ dec = <<>>
    /\ dec_state = <<>>
    /\ IdleRegistry /\ IdleLookup

\* Lines 115 to 164 applied to the block, the dict being empty before.
DecodeRun ==
    /\ dec = <<>>
    /\ \E kind \in Kinds :
          dec' = << read_register_group(dec_block, EmptyDict, kind, dec_img) >>
    /\ UNCHANGED <<cycle_vars, plan_vars, dec_block, dec_img, dec_state,
                   registry_vars, lookup_vars>>

\* Lines 187 to 196: the state of the sensor of each member of the block,
\* coordinator.data being the dict the block read left.
SensorStates ==
    /\ dec # <<>>
    /\ dec_state = <<>>
    /\ dec_state' = << [a \in {r.address : r \in SeqToSet(dec_block)} |->
                          state(CHOOSE r \in SeqToSet(dec_block) : r.address = a,
                                dec[1].data)] >>
    /\ UNCHANGED <<cycle_vars, plan_vars, dec_block, dec_img, dec,
                   registry_vars, lookup_vars>>

NextDecode == DecodeRun \/ SensorStates

SpecDecode == InitDecode /\ [][NextDecode]_vars

\* ------------------------------------------------------------ SpecRegistry
\* The list objects handed out by get_model and what the polls do to them.
InitRegistry ==
    /\ InitCycles
    /\ plan_registers = <<>>
    /\ plan = IdlePlan
    /\ IdleDecode /\ IdleLookup
    /\ lists = <<>>
    /\ lookups = <<>>

\* Lines 84 to 92 of a poll whose identity read returned `code`: the lookup
\* (a new ModelRegistry, get_model), the early return when nothing is found,
\* and registers.sort(...), which sorts the list object it was handed in
\* place. `returned` keeps the list as get_model returned it.
lookup_and_sort(code) ==
    /\ Len(lookups) < MaxLookups
    /\ \E found \in {get_model(code)} :
          IF Falsy(found)
          THEN /\ lookups' = Append(lookups, [code |-> code, id |-> 0, returned |-> <<>>])
               /\ UNCHANGED lists
          ELSE \E id \in {create_func(lists, code)} :
               \E heap \in {IF id > Len(lists)
                             THEN Append(lists, [code |-> code, registers |-> found.list])
                             ELSE lists} :
                  /\ lookups' = Append(lookups, [code |-> code, id |-> id,
                                                 returned |-> heap[id].registers])
                  /\ lists' = [heap EXCEPT ![id].registers = SortByAddress(@)]
    /\ UNCHANGED <<cycle_vars, plan_vars, decode_vars, lookup_vars>>

NextRegistry == \E code \in IdentityCodes : lookup_and_sort(code)

SpecRegistry == InitRegistry /\ [][NextRegistry]_vars

\* -------------------------------------------------------------- SpecLookup
\* get_model applied to every 16-bit identity code.
InitLookup ==
    /\ InitCycles
    /\ plan_registers = <<>>
    /\ plan = IdlePlan
    /\ IdleDecode /\ IdleRegistry
    /\ probe_code \in 0..65535
    /\ probe = <<>>

\* model_registry.get_model(model_code), lines 23 to 27.
Lookup ==
    /\ probe = <<>>
    /\ probe' = << get_model(probe_code) >>
    /\ UNCHANGED <<cycle_vars, plan_vars, decode_vars, registry_vars, probe_code>>

NextLookup == Lookup

SpecLookup == InitLookup /\ [][NextLookup]_vars

\* ================================================================== claims
Done(c) == pc[c] \in {"Failed", "Published", "Raised"}
IdentityOk(c) == responses[c] # <<>> /\ ~responses[c][1].isError
IdentityError(c) == responses[c] # <<>> /\ responses[c][1].isError
KnownModel(c) == poll_model_code[c] # <<>> /\ poll_model_code[c][1] \in models
UnknownModel(c) == poll_model_code[c] # <<>> /\ poll_model_code[c][1] \notin models
ModelRegisters(c) == get_model(poll_model_code[c][1]).list
Range(address, count) == address..(address + count - 1)
Covers(request, address) == address \in Range(request.address, request.count)

\* The indices of the block reads of cycle c that cover `address`, and the
\* register addresses of the model that a successful block read covers.
ReadsCovering(c, address) ==
    {k \in 2..Len(requests[c]) : Covers(requests[c][k], address)}
AddressesReadOk(c) ==
    {r.address : r \in {x \in SeqToSet(ModelRegisters(c)) :
        \E k \in ReadsCovering(c, x.address) : ~responses[c][k].isError}}

\* C1 (as claimed): in a finished cycle with a successful identity read and a
\* known model in which a block read met a transport error, the cycle still
\* returned its snapshot, every register of the model lies in a block that
\* was read, and the snapshot has an entry for exactly the addresses of the
\* blocks read successfully.
C1_PartialResult ==
    \A c \in Cycles :
        (/\ Done(c) /\ IdentityOk(c) /\ KnownModel(c)
         /\ \E k \in 2..Len(responses[c]) : responses[c][k].isError)
        => /\ pc[c] = "Published"
           /\ \A r \in SeqToSet(ModelRegisters(c)) : ReadsCovering(c, r.address) # {}
           /\ DOMAIN ret[c].values = AddressesReadOk(c)

\* C2 (as claimed): a finished cycle whose identity read succeeded and whose
\* model is known has returned its snapshot (Published); no block-read step
\* ended it early.
C2_ReachesPublished ==
    \A c \in Cycles :
        (Done(c) /\ IdentityOk(c) /\ KnownModel(c)) => pc[c] = "Published"

\* C3 (as claimed): a finished cycle whose identity code is unknown ended in
\* Failed, issued no block read, and coordinator.data is not the dict this
\* cycle returned.
C3_UnsupportedNotPublished ==
    \A c \in Cycles :
        (Done(c) /\ IdentityOk(c) /\ UnknownModel(c))
        => /\ pc[c] = "Failed"
           /\ Len(requests[c]) = 1
           /\ dataOwner # c

\* C4: a finished cycle whose identity read failed is Failed, looked up no
\* model, issued no request besides the identity read and returned a dict
\* with no entry at all.
C4_IdentityErrorFails ==
    \A c \in Cycles :
        (Done(c) /\ IdentityError(c))
        => /\ pc[c] = "Failed"
           /\ lookup[c] = "not_called"
           /\ poll_model_code[c] = <<>>
           /\ requests[c] = <<IdentityRequest>>
           /\ ret[c] = EmptyDict

C4_Witness == \E c \in Cycles : Done(c) /\ IdentityError(c)

\* The lowest register address of the cycle's model that none of the block
\* reads before the k-th covers.
Uncovered(c, k) ==
    {r.address : r \in {x \in SeqToSet(ModelRegisters(c)) :
        \A j \in 2..(k - 1) : ~Covers(requests[c][j], x.address)}}
Min(S) == CHOOSE m \in S : \A n \in S : m <= n

\* The requests a cycle has issued are in order: the first is the one-word
\* holding read at 4999; a block read exists only after that read succeeded
\* and the model was found; each block read starts at the lowest register
\* address not yet read and ends where no register of the model continues
\* it; a cycle never has two requests outstanding.
IssuedInOrder(c) ==
    /\ requests[c] # <<>> => requests[c][1] = IdentityRequest
    /\ Len(requests[c]) >= 2 => IdentityOk(c) /\ lookup[c] = "found"
    /\ \A k \in 2..Len(requests[c]) :
          /\ Uncovered(c, k) # {}
          /\ requests[c][k].address = Min(Uncovered(c, k))
          /\ \A r \in SeqToSet(ModelRegisters(c)) :
                r.address # requests[c][k].address + requests[c][k].count
    /\ Len(requests[c]) - Len(responses[c]) \in {0, 1}
    /\ Len(requests[c]) >= 2 => Len(responses[c]) = Len(requests[c])

\* One read per block: once the cycle is over, every register of the model
\* lies in exactly one block read.
OneReadPerBlock(c) ==
    (Done(c) /\ IdentityOk(c) /\ KnownModel(c))
    => \A r \in SeqToSet(ModelRegisters(c)) :
          Cardinality(ReadsCovering(c, r.address)) = 1

\* C5 (as claimed): the identity read comes first, block reads follow it and
\* the model lookup, and the block reads are issued one per block, in
\* ascending block order, each after the previous one returned.
C5_RequestOrder ==
    \A c \in Cycles : IssuedInOrder(c) /\ OneReadPerBlock(c)

\* The ordering part of C5 alone.
C5_IssuedInOrder == \A c \in Cycles : IssuedInOrder(c)

\* C6 (as claimed): at most one poll cycle has a request outstanding on the
\* shared client.
C6_OneOutstanding ==
    Cardinality({c \in Cycles : Len(requests[c]) > Len(responses[c])}) <= 1

\* C7 (as claimed): every member of every block read has the register space
\* of the transport operation the block is read with.
C7_OneSpacePerBlock ==
    \A k \in 1..Len(plan.requests) :
        \A r \in SeqToSet(plan.requests[k].registers) :
            r.register_type = plan.requests[k].op

\* The number of contiguous runs of a list of non-overlapping registers: the
\* registers no other register ends at.
RunStarts(registers) ==
    {i \in 1..Len(registers) :
        \A j \in 1..Len(registers) :
            registers[j].address + registers[j].count # registers[i].address}
OneSpace(registers) ==
    \A i, j \in 1..Len(registers) : registers[i].register_type = registers[j].register_type
Disjoint(registers) ==
    \A i, j \in 1..Len(registers) :
        i # j => Range(registers[i].address, registers[i].count) \cap
                 Range(registers[j].address, registers[j].count) = {}
Ascending(registers) ==
    \A i, j \in 1..Len(registers) : i < j => registers[i].address < registers[j].address
RECURSIVE SumRequested(_)
SumRequested(reqs) ==
    IF reqs = <<>> THEN 0 ELSE Head(reqs).count + SumRequested(Tail(reqs))

\* C8 (as claimed): for a list of disjoint registers of one space forming K
\* contiguous runs, the loop has issued exactly K block reads once it is
\* over, each with its members in ascending address order, and the blocks'
\* word counts add up to the registers' word counts.
C8_KBlocks ==
    (plan.pc # "Idle" /\ OneSpace(plan_registers) /\ Disjoint(plan_registers))
    => /\ Len(plan.requests) = Cardinality(RunStarts(plan_registers))
       /\ \A k \in 1..Len(plan.requests) : Ascending(plan.requests[k].registers)
       /\ SumRequested(plan.requests) = SumCount(plan_registers)

\* C9: every block read starts at its first member's address, asks for the
\* sum of its members' word counts, and the range it asks for is exactly the
\* union of its members' ranges.
C9_NoPadding ==
    \A k \in 1..Len(plan.requests) :
        LET request == plan.requests[k] IN
        /\ request.address = request.registers[1].address
        /\ request.count = SumCount(request.registers)
        /\ Range(request.address, request.count) =
             UNION {Range(r.address, r.count) : r \in SeqToSet(request.registers)}

C9_Witness ==
    \E k \in 1..Len(plan.requests) : Len(plan.requests[k].registers) >= 2

\* C10 (as claimed): every register of the list a poll got from get_model
\* has count >= 1, count 2 for a 32-bit type and count 1 for a 16-bit type.
RegisterInvariant(reg) ==
    /\ reg.count >= 1
    /\ reg.data_type \in {"uint32", "int32"} => reg.count = 2
    /\ reg.data_type \in {"uint16", "int16"} => reg.count = 1
C10_WordCounts ==
    \A c \in Cycles :
        KnownModel(c) =>
            \A reg \in SeqToSet(ModelRegisters(c)) : RegisterInvariant(reg)

\* The integer an int value stands for, when |n| < 2^31.
Num(v) == v.num[1] * 65536 + v.num[2]

\* The reference decoding of the device words w1 (first) and w2 (second)
\* as data_type, stated on the value v: UInt16 is the word; Int16 is the
\* word, less 0x10000 above 0x7FFF; UInt32 is w1 * 0x10000 + w2; Int32 is
\* that, less 0x100000000 above 0x7FFFFFFF.
Signed16(w) == IF w > 32767 THEN w - 65536 ELSE w
MatchesReference(data_type, v, w1, w2) ==
    /\ v.kind = "int"
    /\ v.num[2] \in 0..65535
    /\ CASE data_type = "uint16" -> v.num[1] = 0 /\ Num(v) = w1
         [] data_type = "int16" -> v.num[1] \in {-1, 0} /\ Num(v) = Signed16(w1)
         [] data_type = "uint32" ->
               /\ v.num = <<w1, w2>>
               /\ w1 <= 32767 => Num(v) = w1 * 65536 + w2
         [] data_type = "int32" -> Num(v) = Signed16(w1) * 65536 + w2
    /\ (data_type = "int16" /\ w1 = 32767) => Num(v) = 32767
    /\ (data_type = "int16" /\ w1 = 32768) => Num(v) = -32768
    /\ (data_type = "uint32" /\ w1 = 1 /\ w2 = 2) => Num(v) = 65538
    /\ (data_type = "int32" /\ w1 = 65535 /\ w2 = 65535) => Num(v) = -1

DecodeDone == dec # <<>> /\ ~dec[1].response.isError
Stored(k) == dec_block[k].address \in DOMAIN dec[1].data.values
IsNumeric(reg) == reg.data_type \in NumericTypes

\* C11: after a block read that returned words, the value stored for a
\* numeric member whose predecessors in the block occupy the words their
\* types consume is the reference decoding of the device's words at the
\* member's own address (its own offset inside the block); and when the
\* block has as many words as asked for and every member has the width of its
\* type, every member has a value stored.
C11_NumericDecoding ==
    DecodeDone =>
        /\ \A k \in 1..Len(dec_block) :
              (/\ IsNumeric(dec_block[k]) /\ Stored(k)
               /\ \A j \in 1..(k - 1) : RegisterInvariant(dec_block[j]))
              => MatchesReference(dec_block[k].data_type,
                                  dec[1].data.values[dec_block[k].address],
                                  Word(dec_img, dec_block[k].address),
                                  Word(dec_img, dec_block[k].address + 1))
        /\ (/\ dec[1].response.words = dec[1].request.count
            /\ \A k \in 1..Len(dec_block) : RegisterInvariant(dec_block[k]))
           => \A k \in 1..Len(dec_block) : Stored(k)

\* A signed 32-bit member behind another member got a negative value.
C11_Witness ==
    /\ DecodeDone
    /\ \E k \in 2..Len(dec_block) :
          /\ dec_block[k].data_type = "int32"
          /\ Stored(k)
          /\ Word(dec_img, dec_block[k].address) > 32767
          /\ Word(dec_img, dec_block[k].address + 1) # Word(dec_img, dec_block[k].address)

\* The reference decoding as a base-65536 pair.
RefPair(data_type, w1, w2) ==
    CASE data_type = "uint16" -> <<0, w1>>
      [] data_type = "int16" -> <<IF w1 > 32767 THEN -1 ELSE 0, w1>>
      [] data_type = "uint32" -> <<w1, w2>>
      [] data_type = "int32" -> <<Signed16(w1), w2>>
RefOf(k) ==
    RefPair(dec_block[k].data_type, Word(dec_img, dec_block[k].address),
            Word(dec_img, dec_block[k].address + 1))
InOwnPlace(k) == \A j \in 1..(k - 1) : RegisterInvariant(dec_block[j])
Entry(k) == dec[1].data.values[dec_block[k].address]
StateOf(k) == dec_state[1][dec_block[k].address]

Mismatched(c) ==
    {k \in 2..Len(responses[c]) :
        ~responses[c][k].isError /\ responses[c][k].words # requests[c][k].count}

\* C13 (as claimed): in a finished cycle, a block whose read returned a
\* number of words other than the number asked for has contributed no entry
\* to the cycle's dict (nothing was decoded from its buffer), and the other
\* blocks of the model have been read all the same.
C13_MismatchDropsBlock ==
    \A c \in Cycles :
        Done(c) =>
            \A k \in Mismatched(c) :
                /\ \A r \in SeqToSet(requests[c][k].registers) :
                      r.address \notin DOMAIN poll_data[c].values
                /\ \A r \in SeqToSet(ModelRegisters(c)) :
                      ReadsCovering(c, r.address) # {}

\* The first half of C13 alone: nothing of a mismatched block is stored.
C13_NothingDecoded ==
    \A c \in Cycles :
        Done(c) =>
            \A k \in Mismatched(c) :
                \A r \in SeqToSet(requests[c][k].registers) :
                    r.address \notin DOMAIN poll_data[c].values

\* Two registers of one space claim a common address.
Overlapping(registers) ==
    \E i, j \in 1..Len(registers) :
        /\ i # j
        /\ registers[i].register_type = registers[j].register_type
        /\ Range(registers[i].address, registers[i].count) \cap
           Range(registers[j].address, registers[j].count) # {}

\* The addresses a request reads, with the space it reads them from.
Reads(request) == {<<request.op, a>> : a \in Range(request.address, request.count)}

\* C14 (as claimed): handed a list in which two registers of one space
\* overlap, lines 87 to 113 end with an error before any block is read or
\* any value stored; and whatever the list, no address of a space is read
\* by two requests of one poll.
C14_OverlapRejected ==
    plan.pc # "Idle" =>
        /\ Overlapping(plan_registers) =>
              /\ plan.pc = "Raised"
              /\ plan.requests = <<>>
              /\ plan.data = EmptyDict
        /\ \A i, j \in 1..Len(plan.requests) :
              i # j => Reads(plan.requests[i]) \cap Reads(plan.requests[j]) = {}

\* The second half of C14 alone: no address is read twice in one poll.
C14_NoAddressReadTwice ==
    \A i, j \in 1..Len(plan.requests) :
        i # j => Reads(plan.requests[i]) \cap Reads(plan.requests[j]) = {}

\* The dicts a poll has returned so far, and the dict of __init__.
CompleteSnapshots ==
    {EmptyDict} \cup {ret[c] : c \in {x \in Cycles : pc[x] \in {"Failed", "Published"}}}

\* C15: what a reader of coordinator.data has seen is a complete snapshot,
\* the dict of __init__ or a dict some poll returned, and never holds an
\* entry of a poll that has not returned its dict.
C15_AtomicPublication ==
    seen # <<>> =>
        /\ seen[1] \in CompleteSnapshots
        /\ \A c \in Cycles :
              pc[c] \notin {"Failed", "Published"} =>
                  \A a \in DOMAIN poll_data[c].values : a \notin DOMAIN seen[1].values

\* A reader ran while a poll was in progress, after another poll had filled
\* part of its dict (the first block's entries) and ended without returning
\* it.
C15_Witness ==
    /\ seen # <<>>
    /\ \E c \in Cycles : pc[c] = "ReadingIdentity"
    /\ \E c \in Cycles : pc[c] = "Raised" /\ poll_data[c].values # <<>>

\* The register addresses of the model covered by a block read of cycle c that
\* returned the words asked for.
AddressesReadWell(c) ==
    {r.address : r \in {x \in SeqToSet(ModelRegisters(c)) :
        \E k \in ReadsCovering(c, x.address) :
            ~responses[c][k].isError /\ responses[c][k].words = requests[c][k].count}}

C16_FailedBlockUnknown ==
    [][\A c \in Cycles :
          (pc[c] = "ReadingIdentity" /\ Done(c)' /\ IdentityOk(c)' /\ KnownModel(c)')
          => \A r \in SeqToSet(ModelRegisters(c)') :
                (r.address \notin AddressesReadWell(c)')
                    => state(r, coordinator_data').kind = "none"]_vars

Found(i) == lookups[i].id # 0

\* C17: whatever polls have run and sorted their lists, every lookup of a
\* code has returned the same registers, with the same fields and in the
\* same order, as the first lookup of that code; the list a poll was handed
\* is held by no other poll, and it differs from what was handed out by
\* nothing but that poll's own sort.
C17_DefinitionsNotMutated ==
    /\ \A i, j \in 1..Len(lookups) :
          lookups[i].code = lookups[j].code => lookups[i].returned = lookups[j].returned
    /\ \A i, j \in 1..Len(lookups) :
          (i # j /\ Found(i) /\ Found(j)) => lookups[i].id # lookups[j].id
    /\ \A i \in 1..Len(lookups) :
          Found(i) =>
              /\ SeqToSet(lists[lookups[i].id].registers) = SeqToSet(lookups[i].returned)
              /\ Len(lists[lookups[i].id].registers) = Len(lookups[i].returned)
              /\ Ascending(lists[lookups[i].id].registers)

\* Two polls have looked up the same registered model, and a third poll
\* another one.
C17_Witness ==
    \E i, j, k \in 1..Len(lookups) :
        /\ i < j /\ Found(i) /\ Found(k)
        /\ lookups[i].code = lookups[j].code
        /\ lookups[k].code # lookups[i].code

\* The names of the registers every model has, and the voltage/current
\* pairs of the MPPT trackers.
CommonNames == <<"Serial Number", "Device Type Code", "Inverter Temperature">>
MpptPairs ==
    {<<"MPPT1 Voltage", "MPPT1 Current">>, <<"MPPT2 Voltage", "MPPT2 Current">>,
     <<"MPPT3 Voltage", "MPPT3 Current">>}
Names(registers) == {registers[i].name : i \in 1..Len(registers)}

\* C18: get_model of 0x0E03 (3587) and of 0x0E26 (3622) returns a list, not
\* None: the three common registers (the Serial Number a string) and after
\* them registers of the model's own, none of them a common one, among them
\* at least two MPPT voltage/current pairs for 0x0E03; get_model of any other
\* 16-bit code returns None.
C18_RegistryLookup ==
    probe # <<>> =>
        IF probe_code \in {3587, 3622}
        THEN /\ ~probe[1].isNone
             /\ Len(probe[1].list) > Len(CommonNames)
             /\ \A k \in 1..Len(CommonNames) : probe[1].list[k].name = CommonNames[k]
             /\ probe[1].list[1].data_type = "string"
             /\ SubSeq(probe[1].list, 1, Len(CommonNames)) = create_base_registers
             /\ \A k \in (Len(CommonNames) + 1)..Len(probe[1].list) :
                   probe[1].list[k].name \notin SeqToSet(CommonNames)
             /\ probe_code = 3587 =>
                   Cardinality({pair \in MpptPairs :
                       {pair[1], pair[2]} \subseteq Names(probe[1].list)}) >= 2
        ELSE probe[1].isNone

\* The SH10RT code has been looked up and a list returned.
C18_Witness == probe # <<>> /\ probe_code = 3587 /\ ~probe[1].isNone

\* The running offset when member k of the block is reached (k one past the
\* last member: when the loop is over).
RECURSIVE OffsetBefore(_)
OffsetBefore(k) ==
    IF k = 1 THEN 0 ELSE OffsetBefore(k - 1) + OffsetAdvance(dec_block[k - 1])

\* C19 (as claimed): when the read of a block of a built-in model has
\* returned exactly the words asked for, decoding raises no IndexError: each
\* member indexes only words below that count (the running offset plus the
\* words its type consumes does not exceed it), and the running offset after
\* the last member is that count.
C19_DecodeInsideBuffer ==
    (/\ dec # <<>> /\ dec_block \in ModelBlocks
     /\ ~dec[1].response.isError
     /\ dec[1].response.words = dec[1].request.count)
    => /\ dec[1].exc # "IndexError"
       /\ \A k \in 1..Len(dec_block) :
             OffsetBefore(k) + WordsIndexed(dec_block[k]) <= dec[1].response.words
       /\ OffsetBefore(Len(dec_block) + 1) = dec[1].response.words

====
